---- MODULE Spec2Model ----
(***************************************************************************)
(* A model of dota_updates_tg_bot: the repl handler of main.rs that polls  *)
(* the feed (file_work), the two snapshot files temp_new.json and          *)
(* temp_old.json, the comparison of the two files, and the chunked         *)
(* delivery of message_part.rs.                                            *)
(*                                                                         *)
(* Text is a sequence of one-character strings.  A file is a record        *)
(* [exists, data]; data is the text of the file.                           *)
(***************************************************************************)
EXTENDS Integers, Sequences, FiniteSets, TLC

VARIABLES
    feed,       \* the document the feed URL serves now
    file1,      \* temp_new.json (FILE1), the candidate slot
    file2,      \* temp_old.json (FILE2), the current persisted snapshot
    pc,         \* per chat worker: where its handler is
    inRepl,     \* per chat worker: TRUE once send_first_upd runs its own repl
    headlines,  \* per chat worker: file_work's local `headlines`
    verdict,    \* per chat worker: what compare_json_files returned this cycle
    storeErr,   \* per chat worker: a write to a snapshot file failed this cycle
    dispatched, \* per chat worker: a chunk reached the sink during this cycle
    msg,        \* per chat worker: send_chunks' `msg`
    sent,       \* per chat worker: chunks of msg delivered so far
    delivered,  \* per chat worker: the chunks the sink accepted, in order
    attempts,   \* per chat worker: send_message calls of the current dispatch
    result,     \* per chat worker: what send_chunks returned last
    locals      \* per chat worker: the values process_body computed last

vars == <<feed, file1, file2, pc, inRepl, headlines, verdict, storeErr,
          dispatched, msg, sent, delivered, attempts, result, locals>>

\* ------------------------------------------------------------------ bounds

\* The longest message of the dispatch specification, in chunks.
MaxChunks == 3

\* The chats whose updates the dispatcher handles, one worker each.
Chats == {"c1", "c2"}

\* ------------------------------------------------------------------ text

Min(a, b) == IF a < b THEN a ELSE b

\* The least element of a non-empty set of numbers, 0 for the empty set.
Least(S) == IF S = {} THEN 0 ELSE CHOOSE x \in S : \A y \in S : x <= y

\* The texts of a sequence joined in order.
RECURSIVE Flatten(_)
Flatten(ss) ==
    IF ss = <<>> THEN <<>>
    ELSE IF Len(ss) = 1 THEN ss[1]
    ELSE LET mid == Len(ss) \div 2 IN
         Flatten(SubSeq(ss, 1, mid)) \o Flatten(SubSeq(ss, mid + 1, Len(ss)))

Digits == <<"0", "1", "2", "3", "4", "5", "6", "7", "8", "9">>

\* ------------------------------------------------------------- JSON text

Quote == "\""
Backslash == "\\"

\* serde_json's text of one string: quoted, with " and \ escaped.
EscapeJsonChar(c) ==
    IF c = Quote \/ c = Backslash THEN <<Backslash, c>> ELSE <<c>>

JsonString(s) ==
    <<Quote>> \o Flatten([i \in 1..Len(s) |-> EscapeJsonChar(s[i])]) \o <<Quote>>

\* serde_json::to_string(&headlines): ["h1","h2"] with no white space.
ToJsonText(hs) ==
    <<"[">>
    \o Flatten([i \in 1..Len(hs) |->
                  (IF i > 1 THEN <<",">> ELSE <<>>) \o JsonString(hs[i])])
    \o <<"]">>

ParseFail == [ok |-> FALSE, val |-> <<>>, next |-> 0]

\* The characters of a JSON string from position i (after the opening quote)
\* to its closing quote.
RECURSIVE ParseStringBody(_, _, _)
ParseStringBody(t, i, acc) ==
    IF i > Len(t) THEN ParseFail
    ELSE IF t[i] = Quote THEN [ok |-> TRUE, val |-> acc, next |-> i + 1]
    ELSE IF t[i] = Backslash
         THEN IF i + 1 <= Len(t) /\ t[i + 1] \in {Quote, Backslash}
              THEN ParseStringBody(t, i + 2, Append(acc, t[i + 1]))
              ELSE ParseFail
    ELSE ParseStringBody(t, i + 1, Append(acc, t[i]))

\* The elements of a JSON array of strings from position i, the first
\* character of an element, to the closing bracket that ends the text.
RECURSIVE ParseElements(_, _, _)
ParseElements(t, i, acc) ==
    IF i > Len(t) \/ t[i] # Quote THEN ParseFail
    ELSE LET s == ParseStringBody(t, i + 1, <<>>) IN
         IF ~s.ok \/ s.next > Len(t) THEN ParseFail
         ELSE IF t[s.next] = "," THEN ParseElements(t, s.next + 1, Append(acc, s.val))
         ELSE IF t[s.next] = "]" /\ s.next = Len(t)
              THEN [ok |-> TRUE, val |-> Append(acc, s.val), next |-> s.next + 1]
         ELSE ParseFail

\* parse_json on the text of a snapshot file: a JSON array of strings, or an
\* error (the empty text of a truncated file is one).
ParseJson(t) ==
    IF Len(t) < 2 \/ t[1] # "[" THEN ParseFail
    ELSE IF Len(t) = 2 THEN IF t[2] = "]" THEN [ok |-> TRUE, val |-> <<>>, next |-> 3]
                            ELSE ParseFail
    ELSE ParseElements(t, 2, <<>>)

\* A comparison that forgets the order: the same headlines, in any order.
SameElements(v1, v2) ==
    {v1[i] : i \in 1..Len(v1)} = {v2[i] : i \in 1..Len(v2)}

\* serde_json::Value's == on two arrays of strings: Vec's ==, the lengths and
\* then the elements position by position.
RECURSIVE ValueEq(_, _)
ValueEq(v1, v2) ==
    IF Len(v1) # Len(v2) THEN FALSE
    ELSE IF v1 = <<>> THEN TRUE
    ELSE Head(v1) = Head(v2) /\ ValueEq(Tail(v1), Tail(v2))

\* ------------------------------------------------------------------ files

NoFile == [exists |-> FALSE, data |-> <<>>]
FileOf(text) == [exists |-> TRUE, data |-> text]

\* compare_json_files(FILE1, FILE2): "equal", "different", or "error" when a
\* file cannot be read (readable is FALSE for an I/O failure) or parsed.
CompareJsonFiles(f1, f2, readable) ==
    IF ~readable \/ ~f1.exists \/ ~f2.exists THEN "error"
    ELSE LET j1 == ParseJson(f1.data)
             j2 == ParseJson(f2.data)
         IN IF ~j1.ok \/ ~j2.ok THEN "error"
            ELSE IF ValueEq(j1.val, j2.val) THEN "equal" ELSE "different"

\* ------------------------------------------------------------------- feed

\* An event of the feed document: announcement_body.headline and
\* announcement_body.body, each a JSON string or some other JSON value.
Event(h, hIsStr, b, bIsStr) ==
    [headline |-> [isStr |-> hIsStr, str |-> h],
     body |-> [isStr |-> bIsStr, str |-> b]]

\* The documents the feed URL may serve: json["events"] is an array of
\* events, or is missing or no array; the headline of an event is a string,
\* or is missing or no string.
FeedDocs ==
    { [isArray |-> TRUE, events |-> <<>>],
      [isArray |-> FALSE, events |-> <<>>],
      [isArray |-> TRUE, events |-> <<Event(<<"a">>, TRUE, <<"x", ".">>, TRUE)>>],
      [isArray |-> TRUE,
       events |-> <<Event(<<>>, FALSE, <<"x", ".">>, TRUE),
                    Event(<<"a">>, TRUE, <<"x", ".">>, TRUE)>>],
      [isArray |-> TRUE,
       events |-> <<Event(<<"b", Quote>>, TRUE, <<>>, FALSE),
                    Event(<<"a">>, TRUE, <<"x", ".">>, TRUE)>>] }

\* An extraction that leaves out the events whose headline is no string.
HeadlinesSkipMissing(doc) ==
    IF ~doc.isArray THEN <<>>
    ELSE LET strs == SelectSeq(doc.events, LAMBDA e : e.headline.isStr) IN
         [i \in 1..Len(strs) |-> strs[i].headline.str]

\* read_page_to_json_str_headlines on a fetched document: the headline of
\* every event, "" for one that is no string; no headline when events is no
\* array.
HeadlinesOf(doc) ==
    IF ~doc.isArray THEN <<>>
    ELSE [i \in 1..Len(doc.events) |->
            IF doc.events[i].headline.isStr THEN doc.events[i].headline.str
            ELSE <<>>]

\* read_page_to_json_str_events on a fetched document: serde's typed
\* deserialization into Vec<Event> fails when events is no array or a
\* headline is no string.
EventsOf(doc) ==
    IF doc.isArray /\ \A i \in 1..Len(doc.events) : doc.events[i].headline.isStr
    THEN [ok |-> TRUE, events |-> doc.events]
    ELSE [ok |-> FALSE, events |-> <<>>]

\* ------------------------------------------------------------- transcoder

\* The grave accent, which a TLA+ string cannot hold, as a character.
Grave == "grave"

special_chars ==
    {"_", "*", "(", ")", "~", Grave, ">", "#", "-", "|", "{", "}", ".", "!"}

\* Whether the characters pat stand in s from position i on.
MatchAt(s, i, pat) ==
    /\ i >= 1
    /\ i + Len(pat) - 1 <= Len(s)
    /\ SubSeq(s, i, i + Len(pat) - 1) = pat

\* The first position from i on where pat stands; 0 when there is none.
FindText(s, i, pat) == Least({j \in i..Len(s) : MatchAt(s, j, pat)})

\* The first position from j on that holds character c; 0 when none does.
FindChar(s, j, c) == Least({k \in j..Len(s) : s[k] = c})

\* str::replace(pat, rep) from position i on: every match of pat, leftmost
\* first and not overlapping, becomes rep.
RECURSIVE ReplaceFrom(_, _, _, _)
ReplaceFrom(s, i, pat, rep) ==
    LET j == FindText(s, i, pat) IN
    IF j = 0 THEN SubSeq(s, i, Len(s))
    ELSE SubSeq(s, i, j - 1) \o rep \o ReplaceFrom(s, j + Len(pat), pat, rep)

Replace(s, pat, rep) == ReplaceFrom(s, 1, pat, rep)

\* The first position from j on where close stands, with only characters
\* that `.` matches (no line break) before it; 0 when there is none.
FindClose(s, j, close) ==
    LET c == FindText(s, j, close)
        nl == FindChar(s, j, "\n")
    IN IF c = 0 \/ (nl # 0 /\ nl < c) THEN 0 ELSE c

\* Regex::replace_all of the pattern `open.*?close` by rep, from position i:
\* the leftmost open that has a close, up to its first close.
RECURSIVE ReplaceDelimitedFrom(_, _, _, _, _)
ReplaceDelimitedFrom(s, i, open, close, rep) ==
    LET j == Least({k \in i..Len(s) :
                      /\ MatchAt(s, k, open)
                      /\ FindClose(s, k + Len(open), close) > 0})
    IN IF j = 0 THEN SubSeq(s, i, Len(s))
       ELSE SubSeq(s, i, j - 1) \o rep
            \o ReplaceDelimitedFrom(
                 s, FindClose(s, j + Len(open), close) + Len(close),
                 open, close, rep)

ReplaceDelimited(s, open, close, rep) == ReplaceDelimitedFrom(s, 1, open, close, rep)

UrlOpen == <<"[", "u", "r", "l", "=">>
UrlClose == <<"[", "/", "u", "r", "l", "]">>

\* re_url, \[url=([^]]+)]([^\[]+)\[/url], matched at position i: the target
\* runs to the first "]", the label to the first "[", which must open [/url].
UrlMatch(s, i) ==
    LET a == i + Len(UrlOpen)
        b == FindChar(s, a, "]")
        d == IF b > 0 THEN FindChar(s, b + 1, "[") ELSE 0
    IN IF MatchAt(s, i, UrlOpen) /\ b > a /\ d > b + 1 /\ MatchAt(s, d, UrlClose)
       THEN [ok |-> TRUE, target |-> SubSeq(s, a, b - 1),
             label |-> SubSeq(s, b + 1, d - 1), end |-> d + Len(UrlClose) - 1]
       ELSE [ok |-> FALSE, target |-> <<>>, label |-> <<>>, end |-> 0]

\* The decimal digits of a natural number, as format!("{}", n) prints it.
RECURSIVE Decimal(_)
Decimal(n) ==
    IF n < 10 THEN <<Digits[n + 1]>>
    ELSE Decimal(n \div 10) \o <<Digits[(n % 10) + 1]>>

\* format!("SomeReplacement{}", index).
Placeholder(index) ==
    <<"S", "o", "m", "e", "R", "e", "p", "l", "a", "c", "e", "m", "e", "n",
      "t">>
    \o Decimal(index)

\* The first position from i on where re_url matches; 0 when there is none.
FindUrl(s, i) == Least({j \in i..Len(s) : UrlMatch(s, j).ok})

\* re_url.replace_all with the closure of process_body, from position i:
\* every link is pushed to found_fragments and replaced by the placeholder
\* of its index.
RECURSIVE ExtractLinks(_, _, _, _)
ExtractLinks(s, i, text, frags) ==
    LET j == FindUrl(s, i) IN
    IF j = 0 THEN [text |-> text \o SubSeq(s, i, Len(s)), frags |-> frags]
    ELSE LET m == UrlMatch(s, j) IN
         ExtractLinks(s, m.end + 1,
                      text \o SubSeq(s, i, j - 1) \o Placeholder(Len(frags)),
                      Append(frags, SubSeq(s, j, m.end)))

\* re_url.replace_all(text, "[$2]($1)"), from position i.
RECURSIVE RewriteLinks(_, _)
RewriteLinks(s, i) ==
    LET j == FindUrl(s, i) IN
    IF j = 0 THEN SubSeq(s, i, Len(s))
    ELSE LET m == UrlMatch(s, j) IN
         SubSeq(s, i, j - 1)
         \o <<"[">> \o m.label \o <<"]", "(">> \o m.target \o <<")">>
         \o RewriteLinks(s, m.end + 1)

\* restore_links: the placeholder of every index, in order, is replaced by
\* the fragment of that index wherever it stands.
RECURSIVE RestoreFrom(_, _, _)
RestoreFrom(text, frags, index) ==
    IF index >= Len(frags) THEN text
    ELSE RestoreFrom(Replace(text, Placeholder(index), frags[index + 1]),
                     frags, index + 1)

restore_links(replaced_text, found_fragments) ==
    RestoreFrom(replaced_text, found_fragments, 0)

\* The two glyphs of the list items, which a TLA+ string cannot hold, as
\* characters: U+1F538 and U+1F4CC.
Diamond == "U+1F538"
Pin == "U+1F4CC"

\* The literal replacements of process_body, in the order they are applied.
TagReplacements ==
    <<
       <<<<"[", "/", "h", "1", "]">>,
         <<"*">>>>,
       <<<<"[", "\\", "/", "h", "1", "]">>,
         <<"*">>>>,
       <<<<"[", "/", "h", "2", "]">>,
         <<"*">>>>,
       <<<<"[", "\\", "/", "h", "2", "]">>,
         <<"*">>>>,
       <<<<"[", "/", "h", "3", "]">>,
         <<"*">>>>,
       <<<<"[", "\\", "/", "h", "3", "]">>,
         <<"*">>>>,
       <<<<"[", "/", "h", "5", "]">>,
         <<"*">>>>,
       <<<<"[", "\\", "/", "h", "5", "]">>,
         <<"*">>>>,
       <<<<"[", "l", "i", "s", "t", "]">>,
         <<>>>>,
       <<<<"[", "/", "l", "i", "s", "t", "]">>,
         <<>>>>,
       <<<<"[", "*", "]", "[", "b", "]">>,
         <<Diamond, "*">>>>,
       <<<<"[", "\\", "/", "b", "]">>,
         <<"*">>>>,
       <<<<"[", "*", "]">>,
         <<Pin>>>>,
       <<<<"[", "s", "t", "r", "i", "k", "e", "]">>,
         <<"~">>>>,
       <<<<"[", "\\", "/", "s", "t", "r", "i", "k", "e", "]">>,
         <<"~">>>>,
       <<<<"[", "\\", "/", "p", "r", "e", "v", "i", "e", "w", "y", "o", "u", "t",
            "u", "b", "e", "]">>,
         <<>>>> >>

RECURSIVE ApplyReplacements(_, _, _)
ApplyReplacements(s, table, k) ==
    IF k > Len(table) THEN s
    ELSE ApplyReplacements(Replace(s, table[k][1], table[k][2]), table, k + 1)

\* The text that replaces a video preview marker.
VideoNotice ==
    <<"(", "T", "h", "i", "s", " ", "u", "p", "d", "a", "t", "e", " ", "c",
      "o", "n", "t", "a", "i", "n", "s", " ", "v", "i", "d", "e", "o", ".",
      " ", "T", "o", " ", "w", "a", "t", "c", "h", " ", "t", "h", "e", " ",
      "v", "i", "d", "e", "o", ",", " ", "g", "o", " ", "t", "o", " ", "t",
      "h", "e", " ", "o", "f", "f", "i", "c", "i", "a", "l", " ", "w", "e",
      "b", "s", "i", "t", "e", ".", ")">>

\* An escaping pass that puts a backslash before a backslash as well.
EscapeBackslashToo(s) ==
    Flatten([i \in 1..Len(s) |->
               IF s[i] \in special_chars \cup {Backslash}
               THEN <<Backslash, s[i]>> ELSE <<s[i]>>])

\* The escaping pass of process_body: a backslash before every special
\* character.
EscapeSpecial(s) ==
    Flatten([i \in 1..Len(s) |->
               IF s[i] \in special_chars THEN <<Backslash, s[i]>> ELSE <<s[i]>>])

\* re_table, \[table\].*?\[\/table\]: the opener and the closer.
TableOpen == <<"[", "t", "a", "b", "l", "e", "]">>
TableClose == <<"[", "/", "t", "a", "b", "l", "e", "]">>

\* re_img, \[img\].*?\[\\/img\]: the opener, and the closer, which holds a
\* backslash before the slash.
ImgOpen == <<"[", "i", "m", "g", "]">>
ImgClose == <<"[", "\\", "/", "i", "m", "g", "]">>

\* process_body: tables, images and video previews are cut, links are put
\* aside, tags are replaced, special characters escaped, links restored and
\* rewritten.  The record holds the value of every local, `out` the value
\* returned.
ProcessBodyLocals(body_str) ==
    LET removed_tables ==
            ReplaceDelimited(body_str, TableOpen, TableClose, <<>>)
        removed_img ==
            ReplaceDelimited(removed_tables, ImgOpen, ImgClose, <<>>)
        removed_preview ==
            ReplaceDelimited(removed_img,
                             <<"[", "p", "r", "e", "v", "i", "e", "w", "y",
                               "o", "u", "t", "u", "b", "e">>,
                             <<"]">>, VideoNotice)
        extracted == ExtractLinks(removed_preview, 1, <<>>, <<>>)
        modified_body == ApplyReplacements(extracted.text, TagReplacements, 1)
        replaced_string == EscapeSpecial(modified_body)
        body_with_links == restore_links(replaced_string, extracted.frags)
    IN [body |-> body_str,
        removed_tables |-> removed_tables,
        removed_img |-> removed_img,
        removed_preview |-> removed_preview,
        found_fragments |-> extracted.frags,
        modified_body |-> modified_body,
        replaced_string |-> replaced_string,
        body_with_links |-> body_with_links,
        out |-> RewriteLinks(body_with_links, 1)]

\* What process_body returns.
ProcessBody(body_str) == ProcessBodyLocals(body_str).out

\* No call of process_body has been made.
NoLocals ==
    [body |-> <<>>, removed_tables |-> <<>>, removed_img |-> <<>>,
     removed_preview |-> <<>>, found_fragments |-> <<>>,
     modified_body |-> <<>>, replaced_string |-> <<>>,
     body_with_links |-> <<>>, out |-> <<>>]

\* The text before the headline in handle_message's format! string.
Preamble ==
    <<"_", "*", "T", "o", " ", "s", "e", "e", " ", "m", "o", "r", "e", " ",
      "u", "p", "d", "a", "t", "e", "s", " ", "a", "n", "d", " ", "n", "e",
      "w", "s", " ", "f", "o", "l", "l", "o", "w", " ", "t", "h", "i", "s",
      " ", "[", "l", "i", "n", "k", "]", "(", "h", "t", "t", "p", "s", ":",
      "/", "/", "w", "w", "w", ".", "d", "o", "t", "a", "2", ".", "c", "o",
      "m", "/", "n", "e", "w", "s", "?", "l", "=", "e", "n", "g", "l", "i",
      "s", "h", ")", "*", "_", "\n", "\n", "*">>

\* handle_message's msg_msg: empty unless there is a first event whose body
\* is a string.
MessageOf(events) ==
    IF events # <<>> /\ events[1].body.isStr
    THEN Preamble \o events[1].headline.str \o <<"*", "\n">>
         \o ProcessBody(events[1].body.str) \o <<"\n", "\n">>
    ELSE <<>>

\* What the process_body call of handle_message computed, if it was called.
LocalsOf(events) ==
    IF events # <<>> /\ events[1].body.isStr
    THEN ProcessBodyLocals(events[1].body.str)
    ELSE NoLocals

\* ----------------------------------------------------------------- chunks

\* The chunk length of send_chunks.
ChunkSize == 4000

\* A split that keeps only the full chunks (chunks_exact).
ChunksExact(m) ==
    [k \in 1..(Len(m) \div ChunkSize) |->
       SubSeq(m, (k - 1) * ChunkSize + 1, k * ChunkSize)]

\* msg.chars().collect::<Vec<_>>().chunks(4000), each chunk collected into
\* a String: slices of ChunkSize characters, the last one shorter.
RECURSIVE Chunks(_)
Chunks(m) ==
    IF m = <<>> THEN <<>>
    ELSE <<SubSeq(m, 1, Min(ChunkSize, Len(m)))>>
         \o Chunks(SubSeq(m, ChunkSize + 1, Len(m)))

\* What send_chunks returns: Ok(()) or Err(error).
OkResult == [tag |-> "Ok"]
ErrResult(e) == [tag |-> "Err", error |-> e]
NoResult == [tag |-> "None"]

\* ------------------------------------------------------------ the process

\* The documents a fresh run may find the feed serving, and the snapshots a
\* working directory may hold in temp_old.json when the process starts.
InitialSnapshots == {HeadlinesOf(d) : d \in FeedDocs}

Init ==
    /\ feed \in FeedDocs
    /\ file1 = NoFile
    /\ file2 \in {NoFile} \cup {FileOf(ToJsonText(s)) : s \in InitialSnapshots}
    /\ pc = [h \in Chats |-> "wait"]
    /\ inRepl = [h \in Chats |-> FALSE]
    /\ headlines = [h \in Chats |-> <<>>]
    /\ verdict = [h \in Chats |-> "none"]
    /\ storeErr = [h \in Chats |-> FALSE]
    /\ dispatched = [h \in Chats |-> FALSE]
    /\ msg = [h \in Chats |-> <<>>]
    /\ sent = [h \in Chats |-> 0]
    /\ delivered = [h \in Chats |-> <<>>]
    /\ attempts = [h \in Chats |-> 0]
    /\ result = [h \in Chats |-> NoResult]
    /\ locals = [h \in Chats |-> NoLocals]

envVars == <<feed>>
fileVars == <<file1, file2>>
cycleVars == <<headlines, verdict, storeErr, dispatched>>
sendVars == <<msg, sent, delivered, attempts, result, locals>>

\* file_work is entered: a new poll cycle of worker h begins.
BeginCycle(h) ==
    /\ pc' = [pc EXCEPT ![h] = "fetch"]
    /\ headlines' = [headlines EXCEPT ![h] = <<>>]
    /\ verdict' = [verdict EXCEPT ![h] = "none"]
    /\ storeErr' = [storeErr EXCEPT ![h] = FALSE]
    /\ dispatched' = [dispatched EXCEPT ![h] = FALSE]

\* A user message arrives for worker h.  The repl of main hands it to the
\* handler, which enters `while file_work(LINK).await`; the repl that
\* send_first_upd started hands it to handle_message.
Inbound(h) ==
    /\ pc[h] = "wait"
    /\ IF inRepl[h]
       THEN /\ pc' = [pc EXCEPT ![h] = "events"]
            /\ UNCHANGED cycleVars
       ELSE BeginCycle(h)
    /\ UNCHANGED <<envVars, fileVars, inRepl, sendVars>>

\* file_work: read_page_to_json_str_headlines(url).await.expect(..).
Fetch(h) ==
    /\ pc[h] = "fetch"
    /\ \E ok \in BOOLEAN :
         IF ok
         THEN /\ headlines' = [headlines EXCEPT ![h] = HeadlinesOf(feed)]
              /\ pc' = [pc EXCEPT ![h] = "create"]
         ELSE /\ pc' = [pc EXCEPT ![h] = "panicked"]
              /\ UNCHANGED headlines
    /\ UNCHANGED <<envVars, fileVars, inRepl, verdict, storeErr, dispatched,
                   sendVars>>

\* write_headlines_to_json_file: File::create("temp_new.json")?, which
\* truncates the file; file_work's expect panics on the error.
Create(h) ==
    /\ pc[h] = "create"
    /\ \E ok \in BOOLEAN :
         IF ok
         THEN /\ file1' = FileOf(<<>>)
              /\ pc' = [pc EXCEPT ![h] = "write"]
              /\ UNCHANGED storeErr
         ELSE /\ pc' = [pc EXCEPT ![h] = "panicked"]
              /\ storeErr' = [storeErr EXCEPT ![h] = TRUE]
              /\ UNCHANGED file1
    /\ UNCHANGED <<envVars, file2, inRepl, headlines, verdict, dispatched,
                   sendVars>>

\* write_headlines_to_json_file: file.write_all(json_str.as_bytes())?.
Write(h) ==
    /\ pc[h] = "write"
    /\ \E ok \in BOOLEAN :
         IF ok
         THEN /\ file1' = FileOf(ToJsonText(headlines[h]))
              /\ pc' = [pc EXCEPT ![h] = "compare"]
              /\ UNCHANGED storeErr
         ELSE /\ pc' = [pc EXCEPT ![h] = "panicked"]
              /\ storeErr' = [storeErr EXCEPT ![h] = TRUE]
              /\ UNCHANGED file1
    /\ UNCHANGED <<envVars, file2, inRepl, headlines, verdict, dispatched,
                   sendVars>>

\* file_work: match compare_json_files(FILE1, FILE2).
Compare(h) ==
    /\ pc[h] = "compare"
    /\ \E readable \in BOOLEAN :
         LET v == CompareJsonFiles(file1, file2, readable) IN
         /\ verdict' = [verdict EXCEPT ![h] = v]
         /\ pc' = [pc EXCEPT ![h] = IF v = "different" THEN "remove"
                                    ELSE "completed"]
    /\ UNCHANGED <<envVars, fileVars, inRepl, headlines, storeErr, dispatched,
                   sendVars>>

\* file_work, Ok(false): fs::remove_file(FILE2), the error logged.
Remove(h) ==
    /\ pc[h] = "remove"
    /\ \E ok \in BOOLEAN :
         IF ok /\ file2.exists
         THEN /\ file2' = NoFile
              /\ UNCHANGED storeErr
         ELSE /\ storeErr' = [storeErr EXCEPT ![h] = TRUE]
              /\ UNCHANGED file2
    /\ pc' = [pc EXCEPT ![h] = "rename"]
    /\ UNCHANGED <<envVars, file1, inRepl, headlines, verdict, dispatched,
                   sendVars>>

\* file_work, Ok(false): fs::rename(FILE1, FILE2), the error logged; then
\* send_first_upd().await, whose repl waits for user messages.
Rename(h) ==
    /\ pc[h] = "rename"
    /\ \E ok \in BOOLEAN :
         IF ok /\ file1.exists
         THEN /\ file2' = file1
              /\ file1' = NoFile
              /\ UNCHANGED storeErr
         ELSE /\ storeErr' = [storeErr EXCEPT ![h] = TRUE]
              /\ UNCHANGED <<file1, file2>>
    /\ pc' = [pc EXCEPT ![h] = "wait"]
    /\ inRepl' = [inRepl EXCEPT ![h] = TRUE]
    /\ headlines' = [headlines EXCEPT ![h] = <<>>]
    /\ UNCHANGED <<envVars, verdict, dispatched, sendVars>>

\* main: file_work returned and `while file_work(LINK).await` is decided.
\* file_work returns (), so the source fixes no value for the condition: the
\* loop either sleeps and polls again or is left for handle_message.
Completed(h) ==
    /\ pc[h] = "completed"
    /\ \E again \in BOOLEAN :
         pc' = [pc EXCEPT ![h] = IF again THEN "sleep" ELSE "events"]
    /\ headlines' = [headlines EXCEPT ![h] = <<>>]
    /\ verdict' = [verdict EXCEPT ![h] = "none"]
    /\ UNCHANGED <<envVars, fileVars, inRepl, storeErr, dispatched, sendVars>>

\* main: tokio::time::sleep(sleep_duration).await, then file_work again.
Sleep(h) ==
    /\ pc[h] = "sleep"
    /\ BeginCycle(h)
    /\ UNCHANGED <<envVars, fileVars, inRepl, sendVars>>

\* handle_message: read_page_to_json_str_events(LINK); on an error it
\* returns Ok(()), otherwise it composes msg_msg and calls send_chunks.
Events(h) ==
    /\ pc[h] = "events"
    /\ \E ok \in BOOLEAN :
         LET e == EventsOf(feed) IN
         IF ok /\ e.ok
         THEN /\ msg' = [msg EXCEPT ![h] = MessageOf(e.events)]
              /\ locals' = [locals EXCEPT ![h] = LocalsOf(e.events)]
              /\ sent' = [sent EXCEPT ![h] = 0]
              /\ delivered' = [delivered EXCEPT ![h] = <<>>]
              /\ attempts' = [attempts EXCEPT ![h] = 0]
              /\ result' = [result EXCEPT ![h] = NoResult]
              /\ pc' = [pc EXCEPT ![h] = "send"]
         ELSE /\ pc' = [pc EXCEPT ![h] = "wait"]
              /\ UNCHANGED sendVars
    /\ UNCHANGED <<envVars, fileVars, inRepl, cycleVars>>

\* A loop that drops the outcome of a send and goes on to the next chunk.
SendIgnoringErrors(h) ==
    /\ pc[h] = "send"
    /\ LET chunks == Chunks(msg[h]) IN
       IF sent[h] >= Len(chunks)
       THEN /\ result' = [result EXCEPT ![h] = OkResult]
            /\ pc' = [pc EXCEPT ![h] = "return"]
            /\ UNCHANGED <<sent, delivered, attempts, dispatched>>
       ELSE /\ attempts' = [attempts EXCEPT ![h] = @ + 1]
            /\ sent' = [sent EXCEPT ![h] = @ + 1]
            /\ \E ok \in BOOLEAN :
                 IF ok
                 THEN /\ delivered' = [delivered EXCEPT
                                         ![h] = Append(@, chunks[sent[h] + 1])]
                      /\ dispatched' = [dispatched EXCEPT ![h] = @ \/ inRepl[h]]
                 ELSE UNCHANGED <<delivered, dispatched>>
            /\ UNCHANGED <<pc, result>>
    /\ UNCHANGED <<envVars, fileVars, inRepl, headlines, verdict, storeErr, msg,
                   locals>>

\* send_chunks: one turn of `for chunk in chunks`, the send awaited; `?`
\* returns the first error, and Ok(()) follows the last chunk.
Send(h) ==
    /\ pc[h] = "send"
    /\ LET chunks == Chunks(msg[h]) IN
       IF sent[h] >= Len(chunks)
       THEN /\ result' = [result EXCEPT ![h] = OkResult]
            /\ pc' = [pc EXCEPT ![h] = "return"]
            /\ UNCHANGED <<sent, delivered, attempts, dispatched>>
       ELSE /\ attempts' = [attempts EXCEPT ![h] = @ + 1]
            /\ \E ok \in BOOLEAN :
                 IF ok
                 THEN /\ delivered' = [delivered EXCEPT
                                         ![h] = Append(@, chunks[sent[h] + 1])]
                      /\ sent' = [sent EXCEPT ![h] = @ + 1]
                      /\ dispatched' = [dispatched EXCEPT ![h] = @ \/ inRepl[h]]
                      /\ UNCHANGED <<pc, result>>
                 ELSE /\ result' = [result EXCEPT ![h] = ErrResult("SendError")]
                      /\ pc' = [pc EXCEPT ![h] = "return"]
                      /\ UNCHANGED <<sent, delivered, dispatched>>
    /\ UNCHANGED <<envVars, fileVars, inRepl, headlines, verdict, storeErr, msg,
                   locals>>

\* handle_message after send_chunks: the error or the success is logged, the
\* handler returns and its locals are dropped.
Return(h) ==
    /\ pc[h] = "return"
    /\ pc' = [pc EXCEPT ![h] = "wait"]
    /\ msg' = [msg EXCEPT ![h] = <<>>]
    /\ sent' = [sent EXCEPT ![h] = 0]
    /\ delivered' = [delivered EXCEPT ![h] = <<>>]
    /\ attempts' = [attempts EXCEPT ![h] = 0]
    /\ result' = [result EXCEPT ![h] = NoResult]
    /\ locals' = [locals EXCEPT ![h] = NoLocals]
    /\ UNCHANGED <<envVars, fileVars, inRepl, cycleVars>>

\* The feed publishes another document.
FeedChanges ==
    /\ feed' \in FeedDocs \ {feed}
    /\ UNCHANGED <<fileVars, pc, inRepl, cycleVars, sendVars>>

\* The process is killed and started again: the files stay, the tasks and
\* their locals are gone.
Crash ==
    /\ pc' = [h \in Chats |-> "wait"]
    /\ inRepl' = [h \in Chats |-> FALSE]
    /\ headlines' = [h \in Chats |-> <<>>]
    /\ verdict' = [h \in Chats |-> "none"]
    /\ storeErr' = [h \in Chats |-> FALSE]
    /\ dispatched' = [h \in Chats |-> FALSE]
    /\ msg' = [h \in Chats |-> <<>>]
    /\ sent' = [h \in Chats |-> 0]
    /\ delivered' = [h \in Chats |-> <<>>]
    /\ attempts' = [h \in Chats |-> 0]
    /\ result' = [h \in Chats |-> NoResult]
    /\ locals' = [h \in Chats |-> NoLocals]
    /\ UNCHANGED <<feed, fileVars>>

\* A step of worker h's own code.
Step(h) ==
    \/ Fetch(h)
    \/ Create(h)
    \/ Write(h)
    \/ Compare(h)
    \/ Remove(h)
    \/ Rename(h)
    \/ Completed(h)
    \/ Sleep(h)
    \/ Events(h)
    \/ Send(h)
    \/ Return(h)

Next ==
    \/ \E h \in Chats : Inbound(h)
    \/ \E h \in Chats : Step(h)
    \/ FeedChanges
    \/ Crash

Spec == Init /\ [][Next]_vars

\* The runtime keeps running every task that can take a step; nothing makes
\* a user send a message, the feed change or the process restart.
FairSpec == Spec /\ \A h \in Chats : WF_vars(Step(h))

\* ------------------------------------------------- send_chunks on its own

\* The text of n characters whose i-th character is the last digit of i + p.
TextOf(n, p) == [i \in 1..n |-> Digits[((i + p) % 10) + 1]]

\* The lengths of the messages handed to send_chunks: around every multiple
\* of the chunk length up to MaxChunks chunks.
SendLengths ==
    {k * ChunkSize + d : k \in 0..(MaxChunks - 1), d \in {0, 1, 500, ChunkSize - 1}}
    \cup {MaxChunks * ChunkSize}

SendMessages == {TextOf(n, p) : n \in SendLengths, p \in {0, 3, 7}}

\* send_chunks is entered by one worker with any of the messages.
SendInit ==
    /\ feed = [isArray |-> TRUE, events |-> <<>>]
    /\ file1 = NoFile
    /\ file2 = NoFile
    /\ pc = [h \in Chats |-> IF h = "c1" THEN "send" ELSE "wait"]
    /\ inRepl = [h \in Chats |-> FALSE]
    /\ headlines = [h \in Chats |-> <<>>]
    /\ verdict = [h \in Chats |-> "none"]
    /\ storeErr = [h \in Chats |-> FALSE]
    /\ dispatched = [h \in Chats |-> FALSE]
    /\ \E m \in SendMessages : msg = [h \in Chats |-> IF h = "c1" THEN m ELSE <<>>]
    /\ sent = [h \in Chats |-> 0]
    /\ delivered = [h \in Chats |-> <<>>]
    /\ attempts = [h \in Chats |-> 0]
    /\ result = [h \in Chats |-> NoResult]
    /\ locals = [h \in Chats |-> NoLocals]

SendNext == \E h \in Chats : Send(h)

SendSpec == SendInit /\ [][SendNext]_vars

\* ------------------------------------------ compare_json_files on its own

\* The longest snapshot of the comparison specification, in headlines.
MaxSnapshotLen == 2

\* Headlines; one holds the characters that separate two JSON strings.
DiffHeadlines ==
    {<<>>, <<"a">>, <<"b">>, <<"a", Quote, ",", Quote, "a">>}

DiffSnapshots ==
    UNION {[1..n -> DiffHeadlines] : n \in 0..MaxSnapshotLen}

\* One worker has written snapshot S to temp_new.json, temp_old.json holds
\* snapshot T, and the worker is about to compare the two files.
DiffInit ==
    /\ feed = [isArray |-> TRUE, events |-> <<>>]
    /\ \E S \in DiffSnapshots, T \in DiffSnapshots :
         /\ file1 = FileOf(ToJsonText(S))
         /\ file2 = FileOf(ToJsonText(T))
         /\ headlines = [h \in Chats |-> IF h = "c1" THEN S ELSE <<>>]
    /\ pc = [h \in Chats |-> IF h = "c1" THEN "compare" ELSE "wait"]
    /\ inRepl = [h \in Chats |-> FALSE]
    /\ verdict = [h \in Chats |-> "none"]
    /\ storeErr = [h \in Chats |-> FALSE]
    /\ dispatched = [h \in Chats |-> FALSE]
    /\ msg = [h \in Chats |-> <<>>]
    /\ sent = [h \in Chats |-> 0]
    /\ delivered = [h \in Chats |-> <<>>]
    /\ attempts = [h \in Chats |-> 0]
    /\ result = [h \in Chats |-> NoResult]
    /\ locals = [h \in Chats |-> NoLocals]

DiffNext == \E h \in Chats : Compare(h)

DiffSpec == DiffInit /\ [][DiffNext]_vars

\* ----------------------------------------------------------------- claims

\* The steps of file_work before its match arm ends, and the handling of a
\* message by the repl that send_first_upd runs inside file_work.
InCycle(h) ==
    \/ pc[h] \in {"fetch", "create", "write", "compare", "remove", "rename"}
    \/ inRepl[h] /\ pc[h] \in {"events", "send", "return"}

\* C1: every cycle whose comparison finds the fetched snapshot different from
\* the persisted one hands a chunk to the sink before it ends (a restart
\* ends the cycle).
C1_ChangeLeadsToDispatch ==
    \A h \in Chats :
      (verdict[h] = "different") ~> (dispatched[h] \/ verdict[h] = "none")

\* C2: when a worker compares while temp_old.json holds exactly the snapshot
\* that the worker fetched in this cycle, the comparison does not send the
\* cycle into the update and dispatch arm.
C2_UnchangedCycleLeavesStore ==
    [][\A h \in Chats :
         (/\ pc[h] = "compare"
          /\ file2 = FileOf(ToJsonText(headlines[h]))
          /\ verdict'[h] # "error")
         => (verdict'[h] # "different" /\ pc'[h] # "remove")]_vars

\* C3: a cycle that found no readable persisted snapshot ends with
\* temp_old.json holding the snapshot it fetched, and with nothing sent.
C3_BaselineWithoutDelivery ==
    \A h \in Chats :
      (pc[h] = "completed" /\ verdict[h] = "error")
      => (file2 = FileOf(ToJsonText(headlines[h])) /\ ~dispatched[h])

\* C4: no error of a cycle ends a worker's polling loop.
C4_LoopSurvivesErrors ==
    \A h \in Chats : pc[h] # "panicked"

\* C5: at most one poll cycle is in flight at any time.
C5_OneCycleInFlight ==
    Cardinality({h \in Chats : InCycle(h)}) <= 1

\* C6: a crash between the steps that promote the candidate leaves
\* temp_old.json present and holding a complete snapshot.
C6_CrashConsistent ==
    [][(Crash /\ \E h \in Chats : pc[h] \in {"remove", "rename"})
       => (file2'.exists /\ ParseJson(file2'.data).ok)]_vars

\* The last element of a non-empty sequence.
Last(q) == q[Len(q)]

\* C7: when send_chunks returns Ok, the chunks the sink received, joined in
\* order, are the message; every chunk but the last has ChunkSize
\* characters and the last has 1..ChunkSize; an empty message gives no
\* chunk; no chunk handed to the sink is ever empty.
C7_ChunkSplit ==
    \A h \in Chats :
      /\ \A i \in 1..Len(delivered[h]) : Len(delivered[h][i]) >= 1
      /\ result[h] = OkResult =>
           /\ Flatten(delivered[h]) = msg[h]
           /\ \A i \in 1..(Len(delivered[h]) - 1) : Len(delivered[h][i]) = ChunkSize
           /\ delivered[h] # <<>> => Len(Last(delivered[h])) \in 1..ChunkSize
           /\ msg[h] = <<>> => delivered[h] = <<>>

\* C7 witness: 8500 characters were delivered as 4000, 4000 and 500.
C7_Witness ==
    \E h \in Chats :
      /\ result[h] = OkResult
      /\ Len(msg[h]) = 2 * ChunkSize + 500
      /\ [i \in 1..Len(delivered[h]) |-> Len(delivered[h][i])]
           = <<ChunkSize, ChunkSize, 500>>

\* The chunks of m by position: chunk k is the characters
\* (k-1)*ChunkSize+1 .. k*ChunkSize of m, cut at the end of m.
ChunkAt(m, k) == SubSeq(m, (k - 1) * ChunkSize + 1, Min(k * ChunkSize, Len(m)))

\* The chunks the sink received from worker h are the first sent[h] chunks
\* of its message, in order.
DeliveredInOrder(h) ==
    /\ Len(delivered[h]) = sent[h]
    /\ \A k \in 1..sent[h] : delivered[h][k] = ChunkAt(msg[h], k)

\* Worker h attempts a send only when every earlier send succeeded, and
\* after a failed send it attempts none and send_chunks has returned Err.
StopsAtFirstFailure(h) ==
    /\ pc[h] = "send" => (attempts[h] = sent[h] /\ result[h] = NoResult)
    /\ result[h].tag = "Ok" => attempts[h] = sent[h]
    /\ result[h].tag = "Err" =>
         /\ pc[h] = "return"
         /\ attempts[h] = sent[h] + 1
         /\ sent[h] * ChunkSize < Len(msg[h])

SameSnapshot(S, T) ==
    Len(S) = Len(T) /\ \A i \in 1..Len(S) : S[i] = T[i]

\* C9: the comparison of the files written from snapshots S and T answers
\* "equal" exactly when S and T have the same length and the same headline
\* at every position, and "different" otherwise.
C9_DiffCorrect ==
    \A h \in Chats :
      verdict[h] \in {"equal", "different"} =>
        \A T \in DiffSnapshots :
          file2 = FileOf(ToJsonText(T)) =>
            (verdict[h] = "equal" <=> SameSnapshot(headlines[h], T))

\* C9 witness: two snapshots with the same two headlines in the other order
\* were compared and found different.
C9_Witness ==
    \E h \in Chats :
      /\ verdict[h] = "different"
      /\ headlines[h] = <<<<"a">>, <<"b">>>>
      /\ file2 = FileOf(ToJsonText(<<<<"b">>, <<"a">>>>))

\* C10: a failed write to a snapshot file does not end the cycle.
C10_WriteFailureDoesNotBlock ==
    \A h \in Chats : storeErr[h] => pc[h] # "panicked"

\* C11: when the fetch of a cycle fails, the worker goes straight to the
\* sleep before its next fetch, no snapshot file is touched and nothing has
\* been dispatched in the cycle.
C11_FetchFailureAbandonsCycle ==
    [][\A h \in Chats :
         (Fetch(h) /\ pc'[h] # "create")
         => (/\ pc'[h] = "sleep"
             /\ file1' = file1
             /\ file2' = file2
             /\ ~dispatched'[h])]_vars

\* The steps of file_work up to the end of its match.
CycleSteps == {"fetch", "create", "write", "compare", "remove", "rename"}

\* C12: every cycle a worker begins reaches the sleep, and every sleep is
\* followed by a new fetch, unless the process is restarted or the handler
\* returns first.
C12_CycleReachesSleeping ==
    \A h \in Chats :
      /\ (pc[h] \in CycleSteps)
           ~> (pc[h] = "sleep" \/ (pc[h] = "wait" /\ ~inRepl[h]))
      /\ (pc[h] = "sleep")
           ~> (pc[h] = "fetch" \/ (pc[h] = "wait" /\ ~inRepl[h]))

\* ----------------------------------------------- process_body on its own

\* The most link constructs in a body of the transcoding specification.
MaxLinks == 11

\* The k-th link construct of a body of links: [url=t.K]l_K[/url], K the
\* decimal digits of k.
LinkText(k) ==
    UrlOpen \o <<"t", ".">> \o Decimal(k) \o <<"]", "l", "_">> \o Decimal(k)
    \o UrlClose

\* A body of n link constructs, each after the text sep.
LinkBody(n, sep) == Flatten([k \in 1..n |-> sep \o LinkText(k - 1)])

LinkBodies ==
    {LinkBody(n, sep) : n \in 0..MaxLinks, sep \in {<<>>, <<".", " ">>}}

\* Bodies with tables, images, tags, special characters and placeholder
\* text.
MarkupBodies ==
    {
      \* a table on one line
      <<"[", "t", "a", "b", "l", "e", "]", "T", "[", "/", "t", "a", "b",
        "l", "e", "]", "x">>,
      \* a table that holds a line break
      <<"[", "t", "a", "b", "l", "e", "]", "T", "\n", "T", "[", "/", "t",
        "a", "b", "l", "e", "]", "x">>,
      \* two tables
      <<"x", "[", "t", "a", "b", "l", "e", "]", "T", "[", "/", "t", "a",
        "b", "l", "e", "]", "y", "[", "t", "a", "b", "l", "e", "]", "U",
        "[", "/", "t", "a", "b", "l", "e", "]">>,
      \* a table opener without a closer
      <<"[", "t", "a", "b", "l", "e", "]", "T">>,
      \* an image closed by [/img]
      <<"[", "i", "m", "g", "]", "I", "[", "/", "i", "m", "g", "]", "x">>,
      \* an image closed by [\/img]
      <<"[", "i", "m", "g", "]", "I", "[", "\\", "/", "i", "m", "g", "]",
        "x">>,
      \* an image opener without a closer
      <<"[", "i", "m", "g", "]", "I">>,
      \* plain text
      <<"p", "l", "a", "i", "n">>,
      \* text with special characters
      <<"a", ".", "b", "!">>,
      \* every special character
      <<"_", "*", "(", ")", "~", Grave, ">", "#", "-", "|", "{", "}", ".",
        "!">>,
      \* a backslash before a special character
      <<"a", "\\", ".", "b">>,
      \* heading closers
      <<"[", "h", "1", "]", "H", "[", "/", "h", "1", "]", "h", "[", "\\",
        "/", "h", "2", "]">>,
      \* a list
      <<"[", "l", "i", "s", "t", "]", "[", "*", "]", "[", "b", "]", "B",
        "[", "\\", "/", "b", "]", "[", "*", "]", "c", "[", "/", "l", "i",
        "s", "t", "]">>,
      \* strikethrough
      <<"[", "s", "t", "r", "i", "k", "e", "]", "s", "[", "\\", "/", "s",
        "t", "r", "i", "k", "e", "]">>,
      \* a video preview
      <<"[", "p", "r", "e", "v", "i", "e", "w", "y", "o", "u", "t", "u",
        "b", "e", "=", "v", ";", "f", "u", "l", "l", "]", "[", "\\", "/",
        "p", "r", "e", "v", "i", "e", "w", "y", "o", "u", "t", "u", "b",
        "e", "]">>,
      \* the text of a placeholder and no link
      <<"S", "o", "m", "e", "R", "e", "p", "l", "a", "c", "e", "m", "e",
        "n", "t", "0">>,
      \* the text of a placeholder beside a link
      <<"S", "o", "m", "e", "R", "e", "p", "l", "a", "c", "e", "m", "e",
        "n", "t", "1", "[", "u", "r", "l", "=", "a", "]", "b", "[", "/",
        "u", "r", "l", "]">>,
      \* the text of the first placeholder beside a link
      <<"S", "o", "m", "e", "R", "e", "p", "l", "a", "c", "e", "m", "e",
        "n", "t", "0", " ", "[", "u", "r", "l", "=", "a", "]", "b", "[",
        "/", "u", "r", "l", "]">>,
      \* the link of the test of process_body
      <<"[", "u", "r", "l", "=", "h", "t", "t", "p", "s", ":", "/", "/",
        "w", "w", "w", ".", "d", "o", "t", "a", "2", ".", "c", "o", "m",
        "]", "D", "o", "t", "a", " ", "2", "[", "/", "u", "r", "l", "]">>,
      \* a link whose closer follows a heading closer
      <<"[", "u", "r", "l", "=", "a", "]", "c", "[", "/", "h", "1", "]",
        "[", "/", "u", "r", "l", "]">>,
      \* a link inside a table
      <<"[", "t", "a", "b", "l", "e", "]", "[", "u", "r", "l", "=", "a",
        "]", "T", "[", "/", "u", "r", "l", "]", "[", "/", "t", "a", "b",
        "l", "e", "]", "z">>
    }

BaseBodies == LinkBodies \cup MarkupBodies

\* The bodies handed to process_body: the base bodies and what process_body
\* made of each of them.
Bodies == BaseBodies \cup {ProcessBody(b) : b \in BaseBodies}

\* A feed document whose first event has body b.
DocOf(b) ==
    [isArray |-> TRUE, events |-> <<Event(<<"h">>, TRUE, b, TRUE)>>]

\* handle_message is entered by one worker while the feed serves an event
\* with any of the bodies.
TranscodeInit ==
    /\ feed \in {DocOf(b) : b \in Bodies}
    /\ file1 = NoFile
    /\ file2 = NoFile
    /\ pc = [h \in Chats |-> IF h = "c1" THEN "events" ELSE "wait"]
    /\ inRepl = [h \in Chats |-> FALSE]
    /\ headlines = [h \in Chats |-> <<>>]
    /\ verdict = [h \in Chats |-> "none"]
    /\ storeErr = [h \in Chats |-> FALSE]
    /\ dispatched = [h \in Chats |-> FALSE]
    /\ msg = [h \in Chats |-> <<>>]
    /\ sent = [h \in Chats |-> 0]
    /\ delivered = [h \in Chats |-> <<>>]
    /\ attempts = [h \in Chats |-> 0]
    /\ result = [h \in Chats |-> NoResult]
    /\ locals = [h \in Chats |-> NoLocals]

TranscodeNext == \E h \in Chats : Events(h)

TranscodeSpec == TranscodeInit /\ [][TranscodeNext]_vars

\* ------------------------------------------------- claims on process_body

\* The matches of re_url in text from position i on, in order.
RECURSIVE LinksOf(_, _)
LinksOf(text, i) ==
    LET j == FindUrl(text, i) IN
    IF j = 0 THEN <<>>
    ELSE <<UrlMatch(text, j)>> \o LinksOf(text, UrlMatch(text, j).end + 1)

\* The link construct [url=TARGET]LABEL[/url] of a match, and the hyperlink
\* [LABEL](TARGET) it is to become.
ConstructOf(m) == UrlOpen \o m.target \o <<"]">> \o m.label \o UrlClose
HyperlinkOf(m) == <<"[">> \o m.label \o <<"]", "(">> \o m.target \o <<")">>

\* The texts of pieces stand in text from position i on, one after the other
\* in their order.
RECURSIVE OccurInOrder(_, _, _)
OccurInOrder(text, pieces, i) ==
    IF pieces = <<>> THEN TRUE
    ELSE LET j == FindText(text, i, Head(pieces)) IN
         j > 0 /\ OccurInOrder(text, Tail(pieces), j + Len(Head(pieces)))

\* C13: every link construct of the body is restored from its own
\* placeholder and stands in the output as [LABEL](TARGET), label and target
\* as in the body and in the order of the body; a body that is one link
\* construct becomes exactly its hyperlink.
C13_LinkPreservation ==
    \A h \in Chats :
      pc[h] = "send" =>
        LET L == locals[h]
            links == LinksOf(L.removed_preview, 1)
        IN /\ OccurInOrder(L.body_with_links,
                           [i \in 1..Len(links) |-> ConstructOf(links[i])], 1)
           /\ OccurInOrder(L.out,
                           [i \in 1..Len(links) |-> HyperlinkOf(links[i])], 1)
           /\ (Len(links) = 1 /\ L.body = ConstructOf(links[1]))
                => L.out = HyperlinkOf(links[1])

\* The text of a placeholder without its index.
PlaceholderStem == SubSeq(Placeholder(0), 1, Len(Placeholder(0)) - 1)

\* A placeholder token, the stem followed by a digit, stands in text.
HasPlaceholder(text) ==
    \E j \in 1..Len(text) :
      /\ MatchAt(text, j, PlaceholderStem)
      /\ j + Len(PlaceholderStem) <= Len(text)
      /\ \E d \in 1..Len(Digits) : text[j + Len(PlaceholderStem)] = Digits[d]

\* C14: a body with N link constructs has exactly N fragments extracted,
\* fragment i being the i-th construct of the body, and the output holds no
\* placeholder token.
C14_PlaceholderRoundTrip ==
    \A h \in Chats :
      pc[h] = "send" =>
        LET L == locals[h]
            links == LinksOf(L.removed_preview, 1)
        IN /\ Len(L.found_fragments) = Len(links)
           /\ \A i \in 1..Len(links) : L.found_fragments[i] = ConstructOf(links[i])
           /\ ~HasPlaceholder(L.out)

\* An opener stands in text with a closer somewhere after it.
HasBlock(text, open, close) ==
    \E i \in 1..Len(text), j \in 1..Len(text) :
      MatchAt(text, i, open) /\ MatchAt(text, j, close) /\ j >= i + Len(open)

\* The characters between the first opener of text that has a closer after
\* it and the first closer after that opener.
BlockContent(text, open, close) ==
    LET i == Least({k \in 1..Len(text) :
                      /\ MatchAt(text, k, open)
                      /\ FindText(text, k + Len(open), close) > 0})
        j == FindText(text, i + Len(open), close)
    IN IF i = 0 THEN <<>> ELSE SubSeq(text, i + Len(open), j - 1)

\* The characters of the content of the first block of text that stand
\* nowhere else in text.
OwnCharsOfBlock(text, open, close) ==
    LET content == BlockContent(text, open, close)
        i == FindText(text, 1, open \o content \o close)
        rest == SubSeq(text, 1, i - 1)
                \o SubSeq(text, i + Len(open \o content \o close), Len(text))
    IN {content[k] : k \in 1..Len(content)} \ {rest[k] : k \in 1..Len(rest)}

CharsOf(text) == {text[k] : k \in 1..Len(text)}

\* C15: after the table pass no [table] .. [/table] block is left, whatever
\* stands between the opener and the closer, and no character of the content
\* of the body's table reaches the output.
C15_TableRemoved ==
    \A h \in Chats :
      pc[h] = "send" =>
        LET L == locals[h] IN
        /\ ~HasBlock(L.removed_tables, TableOpen, TableClose)
        /\ OwnCharsOfBlock(L.body, TableOpen, TableClose) \cap CharsOf(L.out) = {}

\* [/img], the closer of an image block.
ImgCloseSlash == <<"[", "/", "i", "m", "g", "]">>

\* C16: after the image pass no [img] .. [/img] block is left and no
\* character of the content of the body's image reaches the output.
C16_ImageRemoved ==
    \A h \in Chats :
      pc[h] = "send" =>
        LET L == locals[h] IN
        /\ ~HasBlock(L.removed_img, ImgOpen, ImgCloseSlash)
        /\ OwnCharsOfBlock(L.removed_tables, ImgOpen, ImgCloseSlash)
             \cap CharsOf(L.out) = {}

\* The number of characters of text up to position i that are in set.
CountIn(text, i, set) == Cardinality({k \in 1..i : text[k] \in set})

\* escaped is text with one backslash put before every character of the
\* special set and nothing else changed: character k of text stands at
\* position k plus the number of special characters up to k, after a
\* backslash when it is special, and escaped holds nothing more.
EscapedOnce(text, escaped) ==
    /\ Len(escaped) = Len(text) + CountIn(text, Len(text), special_chars)
    /\ \A k \in 1..Len(text) :
         LET p == k + CountIn(text, k, special_chars) IN
         /\ escaped[p] = text[k]
         /\ text[k] \in special_chars => escaped[p - 1] = Backslash

\* C17: the escaping pass puts exactly one backslash before every special
\* character that the text holds after the tag substitutions and none before
\* any other character; restoring and rewriting the links adds no backslash;
\* this is so too when the body is itself an output of process_body.
C17_EscapedOnce ==
    \A h \in Chats :
      pc[h] = "send" =>
        LET L == locals[h] IN
        /\ EscapedOnce(L.modified_body, L.replaced_string)
        /\ CountIn(L.out, Len(L.out), {Backslash})
             = CountIn(L.body_with_links, Len(L.body_with_links), {Backslash})

\* C17 witness: a.b! was transcoded, and its output a\.b\! was transcoded
\* again to a\\.b\\!.
C17_Witness ==
    \E h \in Chats :
      /\ pc[h] = "send"
      /\ locals[h].body = <<"a", Backslash, ".", "b", Backslash, "!">>
      /\ locals[h].out
           = <<"a", Backslash, Backslash, ".", "b", Backslash, Backslash, "!">>

\* --------------------------------------------------- claims on the cycle

C19_NoDuplicateNotification ==
    [][\A h \in Chats :
         /\ (Rename(h) /\ ~storeErr'[h]) =>
              file2' = FileOf(ToJsonText(headlines[h]))
         /\ ~(/\ dispatched[h]
              /\ sent[h] = 0
              /\ sent'[h] = 1)]_vars

\* The document has no event, or its first event has no body text.
NoBody(doc) ==
    \/ ~doc.isArray
    \/ doc.events = <<>>
    \/ ~doc.events[1].body.isStr

\* C20: when a worker that detected a change comes to handle_message while
\* the feed has no event or the first event has no body text, the removal
\* and the rename of its cycle are behind it, the message it composes is
\* empty, and an empty message sends no chunk and returns no error; the
\* rename, when the store succeeds, has put the snapshot that the worker
\* fetched in temp_old.json.
C20_EmptyMessageAfterUpdate ==
    /\ [](\A h \in Chats :
            (pc[h] \in {"send", "return"} /\ msg[h] = <<>>)
            => (delivered[h] = <<>> /\ attempts[h] = 0 /\ result[h].tag # "Err"))
    /\ [][\A h \in Chats :
            /\ (Events(h) /\ verdict[h] = "different" /\ NoBody(feed)) =>
                 /\ inRepl[h]
                 /\ pc'[h] = "send" => msg'[h] = <<>>
            /\ (Rename(h) /\ ~storeErr'[h] /\ NoBody(feed))
               => file2' = FileOf(ToJsonText(headlines[h]))]_vars

====
